---- MODULE Spec2Model ----
(***************************************************************************)
(* State-machine model of the drone-mapping viewer:                        *)
(*   - ModelViewer (src/assets/js/model-viewer.js): scene, mesh slot,      *)
(*     loading indicator, error panel, asynchronous loads;                 *)
(*   - MapViewer (src/assets/js/map-viewer.js): layer and annotation       *)
(*     mappings, handles on the map, checkbox controls.                    *)
(* Every handler is one atomic action (the browser runs one callback at a  *)
(* time on the event loop).                                                *)
(***************************************************************************)
EXTENDS Integers, Sequences, FiniteSets, TLC

\* ------------------------------------------------------------------ bounds
\* Objects (loads, loaded models, cubes) the model viewer may allocate.
MaxIds == 4
\* Loads in flight at the same time.
MaxInflight == 2
\* GeoJSON fetches in flight at the same time.
MaxFetches == 2

\* ------------------------------------------------------------------ values
Null == 0
NoPath == "none"
\* options.modelPath when configured, and the path other callers load.
ConfiguredPath == "models/a"
OtherPath == "models/b"
\* modelType as given in the options: absent, the three supported types, an
\* upper-case spelling, and an unsupported type.
TypesIn == {"unset", "glb", "gltf", "obj", "GLB", "stl"}
\* Types other callers pass to the load method.
ApiTypes == {"glb", "obj", "stl"}

VARIABLES
    \* ---- model viewer
    env,            \* the page: which class version runs, which libraries loaded
    options,        \* this.options: modelPath, modelType
    constructed,    \* the constructor has run
    isInitialized,  \* this.isInitialized
    model,          \* this.model: the mesh slot (Null or an object id)
    scene,          \* model/cube objects currently added to this.scene
    kinds,          \* kinds[id]: "load" (a request), "model" (its result), "cube"
    cubeAnimation,  \* this.cubeAnimation
    loading,        \* .model-loading element: "absent", "none" or "flex"
    error,          \* .model-error element: "absent", "none" or "flex"
    buttons,        \* the buttons showError put into the error panel
    inflight,       \* loads handed to loader.load whose callback has not run
    threw,          \* the last handler ended in an uncaught exception
    visited,        \* lifecycle states the last handler entered, in order
    lastEvent,      \* the last handler that ran
    demoShown,      \* Show Demo Model was clicked and no load was requested since
    placeholder,    \* the 'No 3D Model Available' panel fills #model-view
    frameRequested, \* a requestAnimationFrame callback of animate is pending
    rotated         \* the object the last handler rotated, or Null

mvVars == <<env, options, constructed, isInitialized, model, scene, kinds,
            cubeAnimation, loading, error, buttons, inflight, threw, visited,
            lastEvent, demoShown, placeholder, frameRequested, rotated>>

VARIABLES
    \* ---- map viewer
    mapEnv,         \* the page: container, #layers-list, #annotations-list exist
    mapStatus,      \* "new", "ready" (constructed) or "failed" (constructor threw)
    layers,         \* this.layers: id -> NoEntry or [layer, visible, type]
    layerKeys,      \* the keys of this.layers in insertion order
    annotations,    \* this.annotations: id -> NoEntry or [marker, visible]
    annKeys,        \* the keys of this.annotations in insertion order
    onMap,          \* handles currently added to the Leaflet map
    layerControls,  \* the checkboxes in #layers-list, in document order
    annControls,    \* the checkboxes in #annotations-list, in document order
    pendingGeo,     \* GeoJSON fetches whose promise has not settled
    mapLast         \* the last map-viewer operation that ran

mapVars == <<mapEnv, mapStatus, layers, layerKeys, annotations, annKeys, onMap,
             layerControls, annControls, pendingGeo, mapLast>>

VARIABLES
    \* ---- index page (main.js)
    storage,            \* localStorage: a set of <<key, value>> pairs
    prefersDark,        \* matchMedia('(prefers-color-scheme: dark)').matches at load
    dataTheme,          \* body data-theme attribute: "dark" or "none"
    switchChecked,      \* #theme-switch checked
    plPhase,            \* loadProjectsDirectly: "unloaded", "probing", "metadata",
                        \* "html" (awaiting that fetch) or "done"
    probeIdx,           \* index in possibleProjects of the probe awaited
    additionalProjects, \* fetchProjectFolders: additionalProjects
    projectFolders,     \* loadProjectsDirectly: projectFolders
    folderIdx,          \* index in projectFolders of the folder being processed
    listState,          \* #projects-list: "loading", "cards", "empty" or "samples"
    cards,              \* data-project-id of the cards in #projects-list, in order
    lastCard,           \* the project record the last handler made a card of, or NoCard
    requests,           \* probes and metadata.json requests issued since the load
    reissued,           \* a request was issued that had been issued before
    unhandled,          \* a promise rejection escaped every handler
    navCheck,           \* project id whose viewer.html check is awaited, or "none"
    location,           \* window.location: the page shown
    navigations,        \* assignments to window.location.href since the last click
    pageLast            \* the last handler of the index page that ran

themeVars == <<storage, prefersDark, dataTheme, switchChecked>>

listVars == <<plPhase, probeIdx, additionalProjects, projectFolders, folderIdx,
              listState, cards, lastCard, requests, reissued, unhandled>>

navVars == <<navCheck, location, navigations>>

pageVars == <<themeVars, listVars, navVars, pageLast>>

VARIABLES
    \* ---- viewer controller (viewer page)
    fsApi,              \* the page: a requestFullscreen method exists
    setupDone,          \* setupUIControls has run: the listeners are attached
    activeViews,        \* which of #map-view, #model-view carry class active
    activeBtns,         \* which of #map-view-btn, #model-view-btn carry it
    sidebarCollapsed,   \* .sidebar carries class collapsed
    sidebarIcon,        \* icon of #sidebar-toggle: "chevron-left" or "chevron-right"
    fullscreenElement,  \* document.fullscreenElement is set
    fsRequest,          \* fullscreen request the browser has not settled:
                        \* "none", "enter" or "exit"
    fsIcon,             \* icon of #fullscreen-btn: "expand" or "compress"
    ctlLast             \* the last handler of the viewer page that ran

tabVars == <<activeViews, activeBtns>>

fsVars == <<fullscreenElement, fsRequest, fsIcon>>

ctlVars == <<fsApi, setupDone, tabVars, sidebarCollapsed, sidebarIcon, fsVars,
             ctlLast>>

vars == <<mvVars, mapVars, pageVars, ctlVars>>

\* ------------------------------------------------------------ model viewer
\* type.toLowerCase()
ToLower(t) == CASE t = "GLB" -> "glb" [] OTHER -> t

\* options.modelType || 'glb', and the default parameter type = 'glb'
ModelTypeOf(o) == IF o.modelType = "unset" THEN "glb" ELSE o.modelType

\* The viewer's fields as one record, so that handlers compose.
Viewer ==
    [constructed |-> constructed, isInitialized |-> isInitialized,
     model |-> model, scene |-> scene, kinds |-> kinds,
     cubeAnimation |-> cubeAnimation, loading |-> loading, error |-> error,
     buttons |-> buttons, inflight |-> inflight, threw |-> threw,
     visited |-> visited, placeholder |-> placeholder,
     frameRequested |-> frameRequested, rotated |-> rotated]

\* Lifecycle state read off the viewer: uninitialized, error (panel shown),
\* loading (indicator shown), displayed (slot holds a loaded model), demo
\* (neither panel shown and no loaded model in the slot).
StateOf(V) ==
    IF ~V.constructed THEN "uninitialized"
    ELSE IF V.error = "flex" THEN "error"
    ELSE IF V.loading = "flex" THEN "loading"
    ELSE IF V.model # Null /\ V.kinds[V.model] = "model" THEN "displayed"
    ELSE "demo"

mvState == StateOf(Viewer)

Mark(V) == [V EXCEPT !.visited = Append(@, StateOf(V))]

showLoading(V, visible) ==
    IF visible THEN [V EXCEPT !.loading = "flex"]
    ELSE IF V.loading = "absent" THEN V
    ELSE [V EXCEPT !.loading = "none"]

showError(V) ==
    [V EXCEPT !.error = "flex", !.buttons = {"retry", "demo"}]

\* createCube / createDefaultCube. Without Three.js, new THREE.BoxGeometry is
\* a ReferenceError: nothing is assigned and the exception leaves the handler.
createCube(V) ==
    IF ~env.three THEN [V EXCEPT !.threw = TRUE]
    ELSE LET id == Len(V.kinds) + 1 IN
         [V EXCEPT !.model = id,
                   !.kinds = Append(@, "cube"),
                   !.scene = @ \cup {id},
                   !.cubeAnimation = TRUE]

\* Mutant: every type the selection does not know is handed to the glTF loader.
LoaderAvailableDefaulting(type) ==
    LET t == ToLower(type) IN
    IF t = "obj" /\ "obj" \in env.loaders THEN TRUE
    ELSE "gltf" \in env.loaders

\* The loader selection of loadModelWithDraco / loadSimpleModel finds a loader.
LoaderAvailable(type) ==
    LET t == ToLower(type) IN
    IF t = "obj" /\ "obj" \in env.loaders THEN TRUE
    ELSE IF t \in {"gltf", "glb"} THEN "gltf" \in env.loaders
    ELSE FALSE

clearModel(V) ==
    IF V.model # Null
    THEN [V EXCEPT !.scene = @ \ {V.model}, !.model = Null]
    ELSE V

startLoad(V, path, type) ==
    LET id == Len(V.kinds) + 1 IN
    [V EXCEPT !.kinds = Append(@, "load"),
              !.inflight = @ \cup {[id |-> id, path |-> path, type |-> type]}]

setupFailed(V) == createCube(showError(showLoading(V, FALSE)))

loadModelWithDraco(V, path, type) ==
    LET V1 == Mark(showLoading(clearModel(V), TRUE)) IN
    IF LoaderAvailable(type) THEN startLoad(V1, path, type)
    ELSE setupFailed(V1)

\* Mutant: a completion is dropped when a later load has been requested.
onLoadUnlessSuperseded(V, l) ==
    IF Len(V.kinds) > l.id
    THEN [V EXCEPT !.inflight = @ \ {l}]
    ELSE showLoading([V EXCEPT !.model = l.id,
                               !.kinds[l.id] = "model",
                               !.scene = @ \cup {l.id},
                               !.inflight = @ \ {l}], FALSE)

\* Success callback of loader.load for load l.
onLoad(V, l) ==
    LET V1 == [V EXCEPT !.model = l.id,
                        !.kinds[l.id] = "model",
                        !.scene = @ \cup {l.id},
                        !.inflight = @ \ {l}] IN
    showLoading(V1, FALSE)

\* Mutant: the error callback shows the panel and leaves the slot empty.
onErrorNoFallback(V, l) ==
    showError(showLoading([V EXCEPT !.inflight = @ \ {l}], FALSE))

\* Error callback of loader.load for load l.
onError(V, l) ==
    createCube(showError(showLoading([V EXCEPT !.inflight = @ \ {l}], FALSE)))

\* Mutant: Retry starts the load and leaves the error panel shown.
onRetryKeepsPanel(V) ==
    IF options.modelPath # NoPath
    THEN loadModelWithDraco(V, options.modelPath, ModelTypeOf(options))
    ELSE V

\* Mutant: Retry hides the error panel and starts no load.
onRetryWithoutLoad(V) == [V EXCEPT !.error = "none"]

\* Click handlers showError installs.
onRetry(V) ==
    LET V1 == [V EXCEPT !.error = "none"] IN
    IF options.modelPath # NoPath
    THEN loadModelWithDraco(V1, options.modelPath, ModelTypeOf(options))
    ELSE V1

onDemo(V) == createCube([V EXCEPT !.error = "none"])

\* animate(): returns at once unless isInitialized; otherwise requests the
\* next frame, rotates the object in the mesh slot when cubeAnimation is set,
\* and renders.
animate(V) ==
    IF ~V.isInitialized THEN V
    ELSE [V EXCEPT !.frameRequested = TRUE,
                   !.rotated = IF V.cubeAnimation /\ V.model # Null
                               THEN V.model ELSE Null]

\* constructor + init (the container exists). animate() is called before
\* isInitialized is set.
init(V) ==
    IF ~env.three THEN showError(V)
    ELSE IF ~env.webgl THEN showError(V)
    ELSE LET V1 == IF options.modelPath # NoPath
                   THEN loadModelWithDraco(V, options.modelPath, ModelTypeOf(options))
                   ELSE IF env.variant = "simple" THEN createCube(V) ELSE V
         IN [animate(V1) EXCEPT !.isInitialized = TRUE]

\* Mutant: the placeholder is added and the container's content is kept.
showModelPlaceholderKeepingContent(V) == [V EXCEPT !.placeholder = TRUE]

\* showModelPlaceholder(): modelView.innerHTML = '' removes the canvas, the
\* loading indicator and the error panel with its buttons; the placeholder
\* is appended.
showModelPlaceholder(V) ==
    [V EXCEPT !.loading = "absent", !.error = "absent", !.buttons = {},
              !.placeholder = TRUE]

\* A handler starts with no exception pending and an empty lifecycle trace,
\* and its last lifecycle state is recorded if it differs from the one before.
Begin(V) == [V EXCEPT !.threw = FALSE, !.visited = <<>>, !.rotated = Null]

Finish(V, before) ==
    LET s == StateOf(V)
        last == IF V.visited = <<>> THEN before ELSE V.visited[Len(V.visited)]
    IN IF s = last THEN V ELSE Mark(V)

SetViewer(V) ==
    /\ constructed' = V.constructed
    /\ isInitialized' = V.isInitialized
    /\ model' = V.model
    /\ scene' = V.scene
    /\ kinds' = V.kinds
    /\ cubeAnimation' = V.cubeAnimation
    /\ loading' = V.loading
    /\ error' = V.error
    /\ buttons' = V.buttons
    /\ inflight' = V.inflight
    /\ threw' = V.threw
    /\ visited' = V.visited
    /\ placeholder' = V.placeholder
    /\ frameRequested' = V.frameRequested
    /\ rotated' = V.rotated

Event(name, id, type) == [ev |-> name, id |-> id, type |-> type]

CanAllocate == Len(kinds) < MaxIds

CanLoad == CanAllocate /\ Cardinality(inflight) < MaxInflight

\* The pages the viewer can run in. Loaders are Three.js add-ons: without
\* Three.js none is present.
Envs ==
    {e \in [variant : {"simple", "draco"}, three : BOOLEAN, webgl : BOOLEAN,
            loaders : SUBSET {"obj", "gltf"}] :
        /\ ~e.three => (e.loaders = {} /\ e.webgl)
        /\ ~e.webgl => e.loaders = {"obj", "gltf"}}

InitViewer ==
    /\ env \in Envs
    /\ options \in [modelPath : {ConfiguredPath, NoPath}, modelType : TypesIn]
    /\ constructed = FALSE
    /\ isInitialized = FALSE
    /\ model = Null
    /\ scene = {}
    /\ kinds = <<>>
    /\ cubeAnimation = FALSE
    /\ loading = "absent"
    /\ error = "absent"
    /\ buttons = {}
    /\ inflight = {}
    /\ threw = FALSE
    /\ visited = <<>>
    /\ lastEvent = Event("none", 0, "-")
    /\ demoShown = FALSE
    /\ placeholder = FALSE
    /\ frameRequested = FALSE
    /\ rotated = Null

\* new ModelViewer(containerId, options)
Construct ==
    /\ ~constructed
    /\ CanAllocate
    /\ SetViewer(Finish(init([Begin(Viewer) EXCEPT !.constructed = TRUE]), mvState))
    /\ lastEvent' = Event("construct", 0, ModelTypeOf(options))
    /\ UNCHANGED demoShown
    /\ UNCHANGED <<env, options>>
    /\ UNCHANGED mapVars
    /\ UNCHANGED pageVars
    /\ UNCHANGED ctlVars

\* initModelViewer(settings) of the viewer controller: the viewer is
\* constructed and, without a model path, the placeholder is shown.
InitModelViewer ==
    /\ ~constructed
    /\ CanAllocate
    /\ LET V1 == Finish(init([Begin(Viewer) EXCEPT !.constructed = TRUE]), mvState)
           V2 == IF options.modelPath = NoPath
                 THEN Finish(showModelPlaceholder(V1), StateOf(V1))
                 ELSE V1
       IN SetViewer(V2)
    /\ lastEvent' = Event(IF options.modelPath = NoPath THEN "placeholder"
                          ELSE "construct", 0, ModelTypeOf(options))
    /\ UNCHANGED demoShown
    /\ UNCHANGED <<env, options>>
    /\ UNCHANGED mapVars
    /\ UNCHANGED pageVars
    /\ UNCHANGED ctlVars

\* loader.load calls its success callback.
LoadSuccess ==
    /\ \E l \in inflight :
        /\ SetViewer(Finish(onLoad(Begin(Viewer), l), mvState))
        /\ lastEvent' = Event("success", l.id, l.type)
    /\ UNCHANGED demoShown
    /\ UNCHANGED <<env, options>>
    /\ UNCHANGED mapVars
    /\ UNCHANGED pageVars
    /\ UNCHANGED ctlVars

\* loader.load calls its error callback.
LoadError ==
    /\ CanAllocate
    /\ \E l \in inflight :
        /\ SetViewer(Finish(onError(Begin(Viewer), l), mvState))
        /\ lastEvent' = Event("error", l.id, l.type)
    /\ UNCHANGED demoShown
    /\ UNCHANGED <<env, options>>
    /\ UNCHANGED mapVars
    /\ UNCHANGED pageVars
    /\ UNCHANGED ctlVars

\* The user clicks Retry in the visible error panel.
ClickRetry ==
    /\ error = "flex"
    /\ "retry" \in buttons
    /\ CanLoad
    /\ SetViewer(Finish(onRetry(Begin(Viewer)), mvState))
    /\ lastEvent' = Event("retry", 0, ModelTypeOf(options))
    /\ demoShown' = FALSE
    /\ UNCHANGED <<env, options>>
    /\ UNCHANGED mapVars
    /\ UNCHANGED pageVars
    /\ UNCHANGED ctlVars

\* The user clicks Show Demo Model in the visible error panel.
ClickDemo ==
    /\ error = "flex"
    /\ "demo" \in buttons
    /\ CanAllocate
    /\ SetViewer(Finish(onDemo(Begin(Viewer)), mvState))
    /\ lastEvent' = Event("demo", 0, "-")
    /\ demoShown' = TRUE
    /\ UNCHANGED <<env, options>>
    /\ UNCHANGED mapVars
    /\ UNCHANGED pageVars
    /\ UNCHANGED ctlVars

\* window resize -> updateSize(): touches renderer and camera only.
Resize ==
    /\ constructed
    /\ SetViewer(Begin(Viewer))
    /\ lastEvent' = Event("resize", 0, "-")
    /\ UNCHANGED demoShown
    /\ UNCHANGED <<env, options>>
    /\ UNCHANGED mapVars
    /\ UNCHANGED pageVars
    /\ UNCHANGED ctlVars

\* Another script calls the public load method while the viewer is live.
ApiLoad ==
    /\ constructed
    /\ CanLoad
    /\ \E t \in ApiTypes :
        /\ SetViewer(Finish(loadModelWithDraco(Begin(Viewer), OtherPath, t), mvState))
        /\ lastEvent' = Event("load", 0, t)
    /\ demoShown' = FALSE
    /\ UNCHANGED <<env, options>>
    /\ UNCHANGED mapVars
    /\ UNCHANGED pageVars
    /\ UNCHANGED ctlVars

\* A script of the page calls animate() on the constructed viewer.
Animate ==
    /\ constructed
    /\ SetViewer(animate(Begin(Viewer)))
    /\ lastEvent' = Event("animate", 0, "-")
    /\ UNCHANGED demoShown
    /\ UNCHANGED <<env, options>>
    /\ UNCHANGED mapVars
    /\ UNCHANGED pageVars
    /\ UNCHANGED ctlVars

\* The browser runs the callback given to requestAnimationFrame: animate().
AnimationFrame ==
    /\ frameRequested
    /\ SetViewer(animate([Begin(Viewer) EXCEPT !.frameRequested = FALSE]))
    /\ lastEvent' = Event("frame", 0, "-")
    /\ UNCHANGED demoShown
    /\ UNCHANGED <<env, options>>
    /\ UNCHANGED mapVars
    /\ UNCHANGED pageVars
    /\ UNCHANGED ctlVars

\* -------------------------------------------------------------- map viewer
NoHandle == [kind |-> "none", id |-> "-", n |-> 0]
NoEntry == [layer |-> NoHandle]
LayerIds == {"base", "ortho"}
AnnIds == {"m1"}
\* A visibility argument or option: omitted, true or false.
VisArgs == {"undefined", "true", "false"}

\* The map viewer's fields as one record, so that operations compose.
MapView ==
    [layers |-> layers, layerKeys |-> layerKeys, annotations |-> annotations,
     annKeys |-> annKeys, onMap |-> onMap, layerControls |-> layerControls,
     annControls |-> annControls, pendingGeo |-> pendingGeo]

\* A handle is an object identity. The object created for an identifier is
\* named by the identifier and a generation bit, so that a new handle differs
\* from the handle it replaces and from the handles of all other identifiers.
NewHandle(kind, id, old) ==
    [kind |-> kind, id |-> id, n |-> IF old.n = 1 THEN 2 ELSE 1]

\* Object.entries(this.layers).sort(...): base layers first, stable.
SortedLayerKeys(M) ==
    LET IsBase(id) == M.layers[id].type = "base"
        NotBase(id) == M.layers[id].type # "base"
    IN SelectSeq(M.layerKeys, IsBase) \o SelectSeq(M.layerKeys, NotBase)

\* Mutant: the controls are rendered in insertion order.
updateLayerControlsUnsorted(M) ==
    IF ~mapEnv.layersList THEN M
    ELSE LET ks == M.layerKeys IN
         [M EXCEPT !.layerControls =
            [i \in 1..Len(ks) |-> [id |-> ks[i], checked |-> M.layers[ks[i]].visible]]]

updateLayerControls(M) ==
    IF ~mapEnv.layersList THEN M
    ELSE LET ks == SortedLayerKeys(M) IN
         [M EXCEPT !.layerControls =
            [i \in 1..Len(ks) |-> [id |-> ks[i], checked |-> M.layers[ks[i]].visible]]]

updateAnnotationControls(M) ==
    IF ~mapEnv.annotationsList THEN M
    ELSE [M EXCEPT !.annControls =
            [i \in 1..Len(M.annKeys) |->
                [id |-> M.annKeys[i], checked |-> M.annotations[M.annKeys[i]].visible]]]

\* checkbox.checked = value on the element document.querySelector finds.
SetChecked(controls, id, value) ==
    LET hits == {i \in 1..Len(controls) : controls[i].id = id} IN
    IF hits = {} THEN controls
    ELSE LET first == CHOOSE i \in hits : \A j \in hits : i <= j IN
         [controls EXCEPT ![first].checked = value]

\* Mutant: the entry is replaced and the old handle stays on the map.
addLayerKeepsOld(M, id, visible, type) ==
    LET h == NewHandle("layer", id, M.layers[id].layer)
        vis == visible # "false"
        M2 == [M EXCEPT !.layers[id] = [layer |-> h, visible |-> vis, type |-> type],
                        !.layerKeys = IF M.layers[id] = NoEntry THEN Append(@, id) ELSE @]
        M3 == IF vis THEN [M2 EXCEPT !.onMap = @ \cup {h}] ELSE M2
    IN updateLayerControls(M3)

\* addLayer(id, layer, {visible, type}) with a handle its caller just created.
addLayer(M, id, visible, type) ==
    LET h == NewHandle("layer", id, M.layers[id].layer)
        vis == visible # "false"
        M1 == IF M.layers[id] # NoEntry
              THEN [M EXCEPT !.onMap = @ \ {M.layers[id].layer}]
              ELSE M
        M2 == [M1 EXCEPT !.layers[id] = [layer |-> h, visible |-> vis, type |-> type],
                         !.layerKeys = IF M.layers[id] = NoEntry THEN Append(@, id) ELSE @]
        M3 == IF vis THEN [M2 EXCEPT !.onMap = @ \cup {h}] ELSE M2
    IN updateLayerControls(M3)

\* layerInfo.visible !== false, as addCustomLayer passes it on
NotFalse(v) == IF v = "false" THEN "false" ELSE "true"

\* layerInfo.layerType || 'overlay'
LayerTypeOf(t) == IF t = "undefined" THEN "overlay" ELSE t

\* addCustomLayer(layerInfo): kind "sync" is a tile, wms, marker or inline
\* GeoJSON layer, "url" a GeoJSON layer to fetch, "unknown" any other type.
addCustomLayer(M, info) ==
    CASE info.kind = "sync" ->
            addLayer(M, info.id, NotFalse(info.visible), LayerTypeOf(info.layerType))
      [] info.kind = "url" ->
            [M EXCEPT !.pendingGeo = @ \cup {[id |-> info.id, visible |-> info.visible]}]
      [] OTHER -> M

\* Mutant: a completed fetch leaves an entry registered before it in place.
onGeoJsonFirstWins(M, f) ==
    IF M.layers[f.id] # NoEntry THEN [M EXCEPT !.pendingGeo = @ \ {f}]
    ELSE addLayer([M EXCEPT !.pendingGeo = @ \ {f}], f.id, f.visible, "overlay")

\* The fetch of a GeoJSON layer resolved with valid JSON.
onGeoJson(M, f) ==
    addLayer([M EXCEPT !.pendingGeo = @ \ {f}], f.id, f.visible, "overlay")

\* The fetch failed or its body was not JSON: the catch only logs.
onGeoJsonError(M, f) == [M EXCEPT !.pendingGeo = @ \ {f}]

\* Mutant: the visibility argument is ignored and the flag always flipped.
toggleLayerAlwaysFlips(M, id, visible) ==
    IF M.layers[id] = NoEntry THEN M
    ELSE LET flag == ~M.layers[id].visible
             h == M.layers[id].layer
         IN [M EXCEPT !.layers[id].visible = flag,
                      !.onMap = IF flag THEN @ \cup {h} ELSE @ \ {h},
                      !.layerControls = SetChecked(@, id, flag)]

\* Mutant: a layer switched off stays on the map.
toggleLayerNeverRemoves(M, id, visible) ==
    IF M.layers[id] = NoEntry THEN M
    ELSE LET flag == IF visible = "undefined" THEN ~M.layers[id].visible
                     ELSE visible = "true"
             h == M.layers[id].layer
         IN [M EXCEPT !.layers[id].visible = flag,
                      !.onMap = IF flag THEN @ \cup {h} ELSE @,
                      !.layerControls = SetChecked(@, id, flag)]

\* Mutant: switching a layer on switches every other layer off.
toggleLayerExclusive(M, id, visible) ==
    IF M.layers[id] = NoEntry THEN M
    ELSE LET flag == IF visible = "undefined" THEN ~M.layers[id].visible
                     ELSE visible = "true"
             h == M.layers[id].layer
         IN [M EXCEPT !.layers = [j \in LayerIds |->
                                    IF j = id THEN [@[j] EXCEPT !.visible = flag]
                                    ELSE IF @[j] # NoEntry /\ flag
                                         THEN [@[j] EXCEPT !.visible = FALSE]
                                         ELSE @[j]],
                      !.onMap = IF flag THEN @ \cup {h} ELSE @ \ {h},
                      !.layerControls = SetChecked(@, id, flag)]

\* toggleLayer(id, visible)
toggleLayer(M, id, visible) ==
    IF M.layers[id] = NoEntry THEN M
    ELSE LET flag == IF visible = "undefined" THEN ~M.layers[id].visible
                     ELSE visible = "true"
             h == M.layers[id].layer
         IN [M EXCEPT !.layers[id].visible = flag,
                      !.onMap = IF flag THEN @ \cup {h} ELSE @ \ {h},
                      !.layerControls = SetChecked(@, id, flag)]

\* addAnnotation(id, latlng, {visible}): the marker is created inside.
addAnnotation(M, id, visible) ==
    LET h == NewHandle("marker", id, M.annotations[id].layer)
        vis == visible # "false"
        M1 == IF M.annotations[id] # NoEntry
              THEN [M EXCEPT !.onMap = @ \ {M.annotations[id].layer}]
              ELSE M
        M2 == [M1 EXCEPT !.annotations[id] = [layer |-> h, visible |-> vis],
                         !.annKeys = IF M.annotations[id] = NoEntry THEN Append(@, id) ELSE @]
        M3 == IF vis THEN [M2 EXCEPT !.onMap = @ \cup {h}] ELSE M2
    IN updateAnnotationControls(M3)

\* Mutant: the flag and the checkbox change and the map is left alone.
toggleAnnotationFlagOnly(M, id, visible) ==
    IF M.annotations[id] = NoEntry THEN M
    ELSE LET flag == IF visible = "undefined" THEN ~M.annotations[id].visible
                     ELSE visible = "true"
         IN [M EXCEPT !.annotations[id].visible = flag,
                      !.annControls = SetChecked(@, id, flag)]

\* toggleAnnotation(id, visible)
toggleAnnotation(M, id, visible) ==
    IF M.annotations[id] = NoEntry THEN M
    ELSE LET flag == IF visible = "undefined" THEN ~M.annotations[id].visible
                     ELSE visible = "true"
             h == M.annotations[id].layer
         IN [M EXCEPT !.annotations[id].visible = flag,
                      !.onMap = IF flag THEN @ \cup {h} ELSE @ \ {h},
                      !.annControls = SetChecked(@, id, flag)]

\* init() with the container present: the map, the 'base' tile layer, the
\* layer controls (initLayerControls clears the list and renders it).
mapInit(M) == updateLayerControls(addLayer(M, "base", "undefined", "overlay"))

SetMap(M) ==
    /\ layers' = M.layers
    /\ layerKeys' = M.layerKeys
    /\ annotations' = M.annotations
    /\ annKeys' = M.annKeys
    /\ onMap' = M.onMap
    /\ layerControls' = M.layerControls
    /\ annControls' = M.annControls
    /\ pendingGeo' = M.pendingGeo

\* The operation, its identifier and argument, and how many times in a row
\* (up to 2) this same call has now run.
MapOp(op, id, arg) ==
    [op |-> op, id |-> id, arg |-> arg,
     rep |-> IF mapLast.op = op /\ mapLast.id = id /\ mapLast.arg = arg
                /\ arg = "undefined" THEN 2 ELSE 1]

CanFetch == Cardinality(pendingGeo) < MaxFetches

\* The pages the map viewer can run in: the container missing, or present with
\* or without the two sidebar lists.
MapEnvs ==
    {e \in [container : BOOLEAN, layersList : BOOLEAN, annotationsList : BOOLEAN] :
        /\ e.layersList = e.annotationsList
        /\ ~e.container => e.layersList}

InitMap ==
    /\ mapEnv \in MapEnvs
    /\ mapStatus = "new"
    /\ layers = [id \in LayerIds |-> NoEntry]
    /\ layerKeys = <<>>
    /\ annotations = [id \in AnnIds |-> NoEntry]
    /\ annKeys = <<>>
    /\ onMap = {}
    /\ layerControls = <<>>
    /\ annControls = <<>>
    /\ pendingGeo = {}
    /\ mapLast = [op |-> "none", id |-> "-", arg |-> "-", rep |-> 1]

\* new MapViewer(containerId, options). With the container missing init() reads
\* containerId, which is not in its scope: the constructor throws.
MapConstruct ==
    /\ mapStatus = "new"
    /\ IF mapEnv.container
       THEN /\ mapStatus' = "ready"
            /\ SetMap(mapInit(MapView))
       ELSE /\ mapStatus' = "failed"
            /\ SetMap(MapView)
    /\ mapLast' = MapOp("construct", "-", "-")
    /\ UNCHANGED mapEnv
    /\ UNCHANGED mvVars
    /\ UNCHANGED pageVars
    /\ UNCHANGED ctlVars

\* mapViewer.addCustomLayer(layerInfo)
AddCustomLayer ==
    /\ mapStatus = "ready"
    /\ \E id \in LayerIds, k \in {"sync", "url", "unknown"}, v \in VisArgs,
          t \in {"undefined", "base"} :
        /\ k = "sync" => v # "true"
        /\ k = "url" => CanFetch /\ v # "true" /\ t = "undefined"
                        /\ [id |-> id, visible |-> v] \notin pendingGeo
        /\ k = "unknown" => v = "undefined" /\ t = "undefined"
        /\ SetMap(addCustomLayer(MapView, [id |-> id, kind |-> k, visible |-> v,
                                           layerType |-> t]))
        /\ mapLast' = MapOp(IF k = "sync" THEN "addLayer" ELSE "addCustomLayer", id, "-")
    /\ UNCHANGED <<mapEnv, mapStatus>>
    /\ UNCHANGED mvVars
    /\ UNCHANGED pageVars
    /\ UNCHANGED ctlVars

\* A GeoJSON fetch resolves and its layer is registered.
GeoJsonLoaded ==
    /\ \E f \in pendingGeo :
        /\ SetMap(onGeoJson(MapView, f))
        /\ mapLast' = MapOp("addLayer", f.id, "geojson")
    /\ UNCHANGED <<mapEnv, mapStatus>>
    /\ UNCHANGED mvVars
    /\ UNCHANGED pageVars
    /\ UNCHANGED ctlVars

\* A GeoJSON fetch fails.
GeoJsonFailed ==
    /\ \E f \in pendingGeo :
        /\ SetMap(onGeoJsonError(MapView, f))
        /\ mapLast' = MapOp("geoJsonError", f.id, "-")
    /\ UNCHANGED <<mapEnv, mapStatus>>
    /\ UNCHANGED mvVars
    /\ UNCHANGED pageVars
    /\ UNCHANGED ctlVars

\* mapViewer.addAnnotation(id, latlng, options)
AddAnnotation ==
    /\ mapStatus = "ready"
    /\ \E id \in AnnIds, v \in VisArgs :
        /\ SetMap(addAnnotation(MapView, id, v))
        /\ mapLast' = MapOp("addAnnotation", id, "-")
    /\ UNCHANGED <<mapEnv, mapStatus>>
    /\ UNCHANGED mvVars
    /\ UNCHANGED pageVars
    /\ UNCHANGED ctlVars

\* mapViewer.toggleLayer(id, visible), for any identifier.
ToggleLayer ==
    /\ mapStatus = "ready"
    /\ \E id \in LayerIds, v \in VisArgs :
        /\ SetMap(toggleLayer(MapView, id, v))
        /\ mapLast' = MapOp("toggleLayer", id, v)
    /\ UNCHANGED <<mapEnv, mapStatus>>
    /\ UNCHANGED mvVars
    /\ UNCHANGED pageVars
    /\ UNCHANGED ctlVars

\* mapViewer.toggleAnnotation(id, visible), for any identifier.
ToggleAnnotation ==
    /\ mapStatus = "ready"
    /\ \E id \in AnnIds, v \in VisArgs :
        /\ SetMap(toggleAnnotation(MapView, id, v))
        /\ mapLast' = MapOp("toggleAnnotation", id, v)
    /\ UNCHANGED <<mapEnv, mapStatus>>
    /\ UNCHANGED mvVars
    /\ UNCHANGED pageVars
    /\ UNCHANGED ctlVars

BoolArg(b) == IF b THEN "true" ELSE "false"

\* The user clicks a layer checkbox: the browser flips it, the change handler
\* calls toggleLayer(id, checkbox.checked).
ClickLayerCheckbox ==
    /\ \E i \in 1..Len(layerControls) :
        LET c == layerControls[i]
            M1 == [MapView EXCEPT !.layerControls[i].checked = ~c.checked]
        IN /\ SetMap(toggleLayer(M1, c.id, BoolArg(~c.checked)))
           /\ mapLast' = MapOp("toggleLayer", c.id, BoolArg(~c.checked))
    /\ UNCHANGED <<mapEnv, mapStatus>>
    /\ UNCHANGED mvVars
    /\ UNCHANGED pageVars
    /\ UNCHANGED ctlVars

\* The user clicks an annotation checkbox.
ClickAnnotationCheckbox ==
    /\ \E i \in 1..Len(annControls) :
        LET c == annControls[i]
            M1 == [MapView EXCEPT !.annControls[i].checked = ~c.checked]
        IN /\ SetMap(toggleAnnotation(M1, c.id, BoolArg(~c.checked)))
           /\ mapLast' = MapOp("toggleAnnotation", c.id, BoolArg(~c.checked))
    /\ UNCHANGED <<mapEnv, mapStatus>>
    /\ UNCHANGED mvVars
    /\ UNCHANGED pageVars
    /\ UNCHANGED ctlVars

\* resize() and fitBounds(): calls into Leaflet that touch no viewer field.
MapResize ==
    /\ mapStatus = "ready"
    /\ \E op \in {"resize", "fitBounds"} : mapLast' = MapOp(op, "-", "-")
    /\ SetMap(MapView)
    /\ UNCHANGED <<mapEnv, mapStatus>>
    /\ UNCHANGED mvVars
    /\ UNCHANGED pageVars
    /\ UNCHANGED ctlVars

NextMap ==
    \/ MapConstruct \/ AddCustomLayer \/ GeoJsonLoaded \/ GeoJsonFailed
    \/ AddAnnotation \/ ToggleLayer \/ ToggleAnnotation
    \/ ClickLayerCheckbox \/ ClickAnnotationCheckbox \/ MapResize

\* -------------------------------------------------------------- index page
\* fetchProjectFolders: knownProjects and possibleProjects
KnownProjects == <<"sample", "stettiner-str">>

PossibleProjects ==
    <<"project-1", "project-2", "coastline-survey", "urban-mapping", "forest-survey">>

\* A folder name as its sequence of characters.
Chars(name) ==
    CASE name = "sample" -> <<"s", "a", "m", "p", "l", "e">>
      [] name = "stettiner-str" ->
            <<"s", "t", "e", "t", "t", "i", "n", "e", "r", "-", "s", "t", "r">>
      [] name = "project-1" -> <<"p", "r", "o", "j", "e", "c", "t", "-", "1">>
      [] name = "project-2" -> <<"p", "r", "o", "j", "e", "c", "t", "-", "2">>
      [] name = "coastline-survey" ->
            <<"c", "o", "a", "s", "t", "l", "i", "n", "e", "-",
              "s", "u", "r", "v", "e", "y">>
      [] name = "urban-mapping" ->
            <<"u", "r", "b", "a", "n", "-", "m", "a", "p", "p", "i", "n", "g">>
      [] name = "forest-survey" ->
            <<"f", "o", "r", "e", "s", "t", "-", "s", "u", "r", "v", "e", "y">>

\* String.prototype.toUpperCase on one character.
ToUpper(c) ==
    CASE c = "a" -> "A" [] c = "b" -> "B" [] c = "c" -> "C" [] c = "d" -> "D"
      [] c = "e" -> "E" [] c = "f" -> "F" [] c = "g" -> "G" [] c = "h" -> "H"
      [] c = "i" -> "I" [] c = "j" -> "J" [] c = "k" -> "K" [] c = "l" -> "L"
      [] c = "m" -> "M" [] c = "n" -> "N" [] c = "o" -> "O" [] c = "p" -> "P"
      [] c = "q" -> "Q" [] c = "r" -> "R" [] c = "s" -> "S" [] c = "t" -> "T"
      [] c = "u" -> "U" [] c = "v" -> "V" [] c = "w" -> "W" [] c = "x" -> "X"
      [] c = "y" -> "Y" [] c = "z" -> "Z" [] OTHER -> c

\* Mutant: the folder name is used as it is.
TitleizeRaw(cs) == cs

\* projectFolder.charAt(0).toUpperCase() + projectFolder.slice(1).replace(/-/g, ' ')
Titleize(cs) ==
    IF cs = <<>> THEN <<>>
    ELSE <<ToUpper(cs[1])>> \o
         [i \in 1..(Len(cs) - 1) |-> IF cs[i + 1] = "-" THEN " " ELSE cs[i + 1]]

\* [...new Set(allProjects)]: first occurrences, in order.
Dedupe(names) ==
    LET keep == {i \in 1..Len(names) : \A j \in 1..(i - 1) : names[j] # names[i]}
    IN [k \in 1..Cardinality(keep) |->
            names[CHOOSE i \in keep : Cardinality({j \in keep : j <= i}) = k]]

\* The title and description a metadata.json carries, the title of an
\* index.html, and the description given when there is none.
JsonTitle == <<"A", "r", "e", "a">>
JsonDescription == <<"A survey.">>
HtmlTitle == <<"M", "a", "p">>
NoDescription == <<"No description available.">>

\* How a request settles: kind "ok" (2xx and, for metadata.json, valid JSON
\* holding an object), "invalid" (2xx, body not JSON), "status" (non-2xx) or
\* "network" (the fetch rejected); title: the JSON object has title,
\* description and date, or the HTML has a <title> tag; center: the HTML has
\* map-initialization code with a center.
Settled(kind, title, center) == [kind |-> kind, title |-> title, center |-> center]

Failed(kind) == Settled(kind, FALSE, FALSE)

ProbeResults == {Failed("ok"), Failed("status"), Failed("network")}

MetadataResults ==
    {Settled("ok", t, FALSE) : t \in BOOLEAN}
        \cup {Failed("invalid"), Failed("status"), Failed("network")}

HtmlResults ==
    {Settled("ok", t, c) : t \in BOOLEAN, c \in BOOLEAN}
        \cup {Failed("status"), Failed("network")}

Request(method, file, name) == [method |-> method, file |-> file, name |-> name]

NoCard == [id |-> "-", title |-> <<>>, description |-> <<>>, date |-> "undefined",
           center |-> "undefined"]

\* The project lister's state as one record, so that its steps compose.
Lister ==
    [plPhase |-> plPhase, probeIdx |-> probeIdx,
     additionalProjects |-> additionalProjects, projectFolders |-> projectFolders,
     folderIdx |-> folderIdx, listState |-> listState, cards |-> cards,
     lastCard |-> lastCard, requests |-> requests, reissued |-> reissued,
     unhandled |-> unhandled]

\* The page before its scripts have run.
FreshLister ==
    [plPhase |-> "unloaded", probeIdx |-> 0, additionalProjects |-> <<>>,
     projectFolders |-> <<>>, folderIdx |-> 0, listState |-> "loading",
     cards |-> <<>>, lastCard |-> NoCard, requests |-> {}, reissued |-> FALSE,
     unhandled |-> FALSE]

\* A handler of the lister starts: it has made no card yet.
resume(L) == [L EXCEPT !.lastCard = NoCard]

\* The request log keeps the discovery probes and the metadata.json requests.
Logged(r) == (r.method = "HEAD" /\ r.file = "index.html") \/ r.file = "metadata.json"

\* fetch(url, ...)
fetch(L, r) ==
    IF Logged(r)
    THEN [L EXCEPT !.requests = @ \cup {r}, !.reissued = @ \/ (r \in L.requests)]
    ELSE L

\* projectsList.appendChild(createProjectCard(project))
appendCard(L, project) ==
    [L EXCEPT !.cards = Append(@, project.id), !.lastCard = project]

\* fetchProjectMetadata(projectFolder) up to its first await.
fetchProjectMetadata(L) ==
    fetch([L EXCEPT !.plPhase = "metadata"],
          Request("GET", "metadata.json", L.projectFolders[L.folderIdx]))

\* loadProjectsDirectly after its loop: the no-projects message.
finishList(L) ==
    [L EXCEPT !.plPhase = "done",
              !.listState = IF Len(L.projectFolders) = 0 THEN "empty" ELSE @]

\* The loop of loadProjectsDirectly goes on to the next folder.
nextFolder(L) ==
    IF L.folderIdx < Len(L.projectFolders)
    THEN fetchProjectMetadata([L EXCEPT !.folderIdx = @ + 1])
    ELSE finishList(L)

\* fetchProjectFolders returns; loadProjectsDirectly clears the list and
\* enters its loop.
foldersFound(L) ==
    LET L1 == [L EXCEPT !.projectFolders = Dedupe(KnownProjects \o L.additionalProjects),
                        !.listState = "cards",
                        !.cards = <<>>,
                        !.folderIdx = 0]
    IN nextFolder(L1)

\* The HEAD request of the candidate at probeIdx.
probe(L) == fetch(L, Request("HEAD", "index.html", PossibleProjects[L.probeIdx]))

\* DOMContentLoaded: loadProjectsDirectly() up to its first await.
loadProjectsDirectly(L) == probe([L EXCEPT !.plPhase = "probing", !.probeIdx = 1])

\* Mutant: a probe that failed is issued again.
onProbeRetrying(L, res) ==
    LET L1 == IF res.kind = "ok"
              THEN [L EXCEPT !.additionalProjects =
                                Append(@, PossibleProjects[L.probeIdx])]
              ELSE L
    IN IF res.kind # "ok" THEN probe(L1)
       ELSE IF L.probeIdx < Len(PossibleProjects)
       THEN probe([L1 EXCEPT !.probeIdx = @ + 1])
       ELSE foldersFound(L1)

\* Mutant: a probe whose fetch rejects ends loadProjectsDirectly with the
\* rejection unhandled.
onProbeUncaught(L, res) ==
    IF res.kind = "network" THEN [L EXCEPT !.unhandled = TRUE]
    ELSE LET L1 == IF res.kind = "ok"
                   THEN [L EXCEPT !.additionalProjects =
                                     Append(@, PossibleProjects[L.probeIdx])]
                   ELSE L
         IN IF L.probeIdx < Len(PossibleProjects)
            THEN probe([L1 EXCEPT !.probeIdx = @ + 1])
            ELSE foldersFound(L1)

\* fetchProjectFolders: the awaited probe settles.
onProbe(L, res) ==
    LET L1 == IF res.kind = "ok"
              THEN [L EXCEPT !.additionalProjects =
                                Append(@, PossibleProjects[L.probeIdx])]
              ELSE L
    IN IF L.probeIdx < Len(PossibleProjects)
       THEN probe([L1 EXCEPT !.probeIdx = @ + 1])
       ELSE foldersFound(L1)

\* The card of a folder whose metadata.json loaded.
CardFromJson(folder, res) ==
    [id |-> folder,
     title |-> IF res.title THEN JsonTitle ELSE Chars(folder),
     description |-> IF res.title THEN JsonDescription ELSE NoDescription,
     date |-> IF res.title THEN "json" ELSE "undefined",
     center |-> "undefined"]

\* The card of a folder whose metadata came from index.html.
CardFromHtml(folder, res) ==
    LET title == IF res.title THEN HtmlTitle ELSE Chars(folder) IN
    [id |-> folder,
     title |-> title,
     description |-> title \o <<" mapping project">>,
     date |-> "today",
     center |-> "undefined"]

\* The card loadProjectsDirectly builds in its catch.
CardFromFolder(folder) ==
    [id |-> folder,
     title |-> Titleize(Chars(folder)),
     description |-> NoDescription,
     date |-> "undefined",
     center |-> "undefined"]

\* Mutant: index.html is requested whether or not metadata.json loaded.
onMetadataAlwaysHtml(L, res) ==
    fetch([L EXCEPT !.plPhase = "html"],
          Request("GET", "index.html", L.projectFolders[L.folderIdx]))

\* fetchProjectMetadata: the metadata.json request settles.
onMetadata(L, res) ==
    LET folder == L.projectFolders[L.folderIdx] IN
    IF res.kind = "ok" THEN nextFolder(appendCard(L, CardFromJson(folder, res)))
    ELSE fetch([L EXCEPT !.plPhase = "html"], Request("GET", "index.html", folder))

\* fetchProjectMetadata: the index.html request settles; when it failed the
\* first error is thrown again and loadProjectsDirectly catches it.
onHtml(L, res) ==
    LET folder == L.projectFolders[L.folderIdx] IN
    IF res.kind = "ok" THEN nextFolder(appendCard(L, CardFromHtml(folder, res)))
    ELSE nextFolder(appendCard(L, CardFromFolder(folder)))

SetLister(L) ==
    /\ plPhase' = L.plPhase
    /\ probeIdx' = L.probeIdx
    /\ additionalProjects' = L.additionalProjects
    /\ projectFolders' = L.projectFolders
    /\ folderIdx' = L.folderIdx
    /\ listState' = L.listState
    /\ cards' = L.cards
    /\ lastCard' = L.lastCard
    /\ requests' = L.requests
    /\ reissued' = L.reissued
    /\ unhandled' = L.unhandled

\* localStorage.getItem(key): the value or "null".
getItem(st, key) ==
    IF \E e \in st : e[1] = key THEN (CHOOSE e \in st : e[1] = key)[2] ELSE "null"

\* localStorage.setItem(key, value)
setItem(st, key, value) == {e \in st : e[1] # key} \cup {<<key, value>>}

\* Mutant: the system preference wins over a stored 'light'.
DarkAtLoadPreferring(st, prefers) == getItem(st, "theme") = "dark" \/ prefers

\* savedTheme === 'dark' || (!savedTheme && prefersDark)
DarkAtLoad(st, prefers) ==
    LET savedTheme == getItem(st, "theme") IN
    savedTheme = "dark" \/ (savedTheme = "null" /\ prefers)

\* Mutant: the page load stores the theme it applied.
StorageAtLoadSaving(st, prefers) ==
    setItem(st, "theme", IF DarkAtLoad(st, prefers) THEN "dark" ELSE "light")

\* The load handler reads local storage and does not write it.
StorageAtLoad(st, prefers) == st

\* The pages the browser shows: the site's index page, or a file of a project.
IndexPage == [id |-> "-", file |-> "index.html"]

PastEvent(ev, id, res) == [ev |-> ev, id |-> id, res |-> res]

\* Mutant: a failed check still navigates to viewer.html.
NavTargetAlwaysViewer(id, res) == [id |-> id, file |-> "viewer.html"]

\* The card's click handler after checkFileExists resolved: response.ok, and
\* false when the fetch rejected.
NavTarget(id, res) ==
    [id |-> id, file |-> IF res.kind = "ok" THEN "viewer.html" ELSE "index.html"]

\* The first visit: no page loaded yet, local storage empty.
InitPage ==
    /\ storage = {}
    /\ prefersDark = FALSE
    /\ dataTheme = "none"
    /\ switchChecked = FALSE
    /\ plPhase = "unloaded"
    /\ probeIdx = 0
    /\ additionalProjects = <<>>
    /\ projectFolders = <<>>
    /\ folderIdx = 0
    /\ listState = "loading"
    /\ cards = <<>>
    /\ lastCard = NoCard
    /\ requests = {}
    /\ reissued = FALSE
    /\ unhandled = FALSE
    /\ navCheck = "none"
    /\ location = IndexPage
    /\ navigations = 0
    /\ pageLast = PastEvent("none", "-", Failed("none"))

\* DOMContentLoaded on the index page: the theme is applied and
\* loadProjectsDirectly runs to its first await.
DOMContentLoaded(prefers) ==
    /\ prefersDark' = prefers
    /\ dataTheme' = IF DarkAtLoad(storage, prefers) THEN "dark" ELSE "none"
    /\ switchChecked' = DarkAtLoad(storage, prefers)
    /\ storage' = StorageAtLoad(storage, prefers)
    /\ SetLister(loadProjectsDirectly(FreshLister))
    /\ navCheck' = "none"
    /\ location' = IndexPage
    /\ navigations' = 0
    /\ pageLast' = PastEvent("load", "-", Failed("none"))

\* The index page is opened (or opened again after a navigation).
PageLoad ==
    /\ plPhase = "unloaded"
    /\ \E prefers \in BOOLEAN : DOMContentLoaded(prefers)
    /\ UNCHANGED <<mvVars, mapVars>>
    /\ UNCHANGED ctlVars

\* The index page is loaded again while it is shown.
Reload ==
    /\ plPhase # "unloaded"
    /\ \E prefers \in BOOLEAN : DOMContentLoaded(prefers)
    /\ UNCHANGED <<mvVars, mapVars>>
    /\ UNCHANGED ctlVars

\* The user flips the theme switch: its change listener runs.
ThemeChange ==
    /\ plPhase # "unloaded"
    /\ switchChecked' = ~switchChecked
    /\ dataTheme' = IF ~switchChecked THEN "dark" ELSE "none"
    /\ storage' = setItem(storage, "theme", IF ~switchChecked THEN "dark" ELSE "light")
    /\ pageLast' = PastEvent("themeChange", "-", Failed("none"))
    /\ UNCHANGED <<prefersDark, listVars, navVars>>
    /\ UNCHANGED <<mvVars, mapVars>>
    /\ UNCHANGED ctlVars

\* The awaited HEAD probe settles.
ProbeSettled ==
    /\ plPhase = "probing"
    /\ \E res \in ProbeResults :
        /\ SetLister(onProbe(resume(Lister), res))
        /\ pageLast' = PastEvent("probe", PossibleProjects[probeIdx], res)
    /\ UNCHANGED <<themeVars, navVars>>
    /\ UNCHANGED <<mvVars, mapVars>>
    /\ UNCHANGED ctlVars

\* The awaited metadata.json request settles.
MetadataSettled ==
    /\ plPhase = "metadata"
    /\ \E res \in MetadataResults :
        /\ SetLister(onMetadata(resume(Lister), res))
        /\ pageLast' = PastEvent("metadata", projectFolders[folderIdx], res)
    /\ UNCHANGED <<themeVars, navVars>>
    /\ UNCHANGED <<mvVars, mapVars>>
    /\ UNCHANGED ctlVars

\* The awaited index.html request settles.
HtmlSettled ==
    /\ plPhase = "html"
    /\ \E res \in HtmlResults :
        /\ SetLister(onHtml(resume(Lister), res))
        /\ pageLast' = PastEvent("html", projectFolders[folderIdx], res)
    /\ UNCHANGED <<themeVars, navVars>>
    /\ UNCHANGED <<mvVars, mapVars>>
    /\ UNCHANGED ctlVars

\* The user clicks a project card: checkFileExists issues its HEAD request.
ClickCard ==
    /\ plPhase # "unloaded"
    /\ navCheck = "none"
    /\ \E i \in 1..Len(cards) :
        /\ navCheck' = cards[i]
        /\ SetLister(fetch(resume(Lister), Request("HEAD", "viewer.html", cards[i])))
        /\ pageLast' = PastEvent("click", cards[i], Failed("none"))
    /\ navigations' = 0
    /\ UNCHANGED <<themeVars, location>>
    /\ UNCHANGED <<mvVars, mapVars>>
    /\ UNCHANGED ctlVars

\* The check settles and the click handler navigates: the index page is left.
CheckSettled ==
    /\ navCheck # "none"
    /\ \E res \in ProbeResults :
        /\ location' = NavTarget(navCheck, res)
        /\ pageLast' = PastEvent("check", navCheck, res)
    /\ navigations' = navigations + 1
    /\ navCheck' = "none"
    /\ SetLister(FreshLister)
    /\ dataTheme' = "none"
    /\ switchChecked' = FALSE
    /\ UNCHANGED <<storage, prefersDark>>
    /\ UNCHANGED <<mvVars, mapVars>>
    /\ UNCHANGED ctlVars

\* -------------------------------------------------------- viewer controller
Views == {"map", "model"}

\* The classes of the two views and the two tab buttons.
Tabs == [activeViews |-> activeViews, activeBtns |-> activeBtns]

\* Mutant: the chosen view and button get the class and no class is removed.
setActiveViewAdding(T, viewType) ==
    [T EXCEPT !.activeViews = @ \cup {viewType},
              !.activeBtns = @ \cup {viewType}]

\* setActiveView(viewType): classList.add on the chosen view and button,
\* classList.remove on the other two; the resize that follows changes no class.
setActiveView(T, viewType) ==
    IF viewType = "map"
    THEN [T EXCEPT !.activeViews = (@ \cup {"map"}) \ {"model"},
                   !.activeBtns = (@ \cup {"map"}) \ {"model"}]
    ELSE [T EXCEPT !.activeViews = (@ \ {"map"}) \cup {"model"},
                   !.activeBtns = (@ \ {"map"}) \cup {"model"}]

SetTabs(T) ==
    /\ activeViews' = T.activeViews
    /\ activeBtns' = T.activeBtns

\* The viewer page as its HTML gives it, before setupUIControls: any of the
\* four elements may carry class active; the sidebar is open, the document is
\* not in fullscreen and the button shows the expand icon.
InitControls ==
    /\ fsApi \in BOOLEAN
    /\ setupDone = FALSE
    /\ activeViews \in SUBSET Views
    /\ activeBtns \in SUBSET Views
    /\ sidebarCollapsed = FALSE
    /\ sidebarIcon = "chevron-left"
    /\ fullscreenElement = FALSE
    /\ fsRequest = "none"
    /\ fsIcon = "expand"
    /\ ctlLast = "none"

\* setupUIControls(): the listeners are attached, the saved or preferred theme
\* is applied, and the default view is set to the map.
SetupUIControls ==
    /\ ~setupDone
    /\ setupDone' = TRUE
    /\ \E prefers \in BOOLEAN :
        /\ prefersDark' = prefers
        /\ dataTheme' = IF DarkAtLoad(storage, prefers) THEN "dark" ELSE dataTheme
        /\ switchChecked' = IF DarkAtLoad(storage, prefers) THEN TRUE ELSE switchChecked
    /\ SetTabs(setActiveView(Tabs, "map"))
    /\ ctlLast' = "setup"
    /\ UNCHANGED <<fsApi, sidebarCollapsed, sidebarIcon, fsVars>>
    /\ UNCHANGED <<storage, listVars, navVars, pageLast>>
    /\ UNCHANGED <<mvVars, mapVars>>

\* The user clicks a tab button: setActiveView('map') or setActiveView('model').
ClickViewBtn ==
    /\ setupDone
    /\ \E viewType \in Views :
        /\ SetTabs(setActiveView(Tabs, viewType))
        /\ ctlLast' = viewType
    /\ UNCHANGED <<fsApi, setupDone, sidebarCollapsed, sidebarIcon, fsVars>>
    /\ UNCHANGED <<mvVars, mapVars, pageVars>>

\* The user clicks the sidebar toggle; the resize 300 ms later changes
\* nothing the model holds.
ClickSidebarToggle ==
    /\ setupDone
    /\ sidebarCollapsed' = ~sidebarCollapsed
    /\ sidebarIcon' = IF ~sidebarCollapsed THEN "chevron-right" ELSE "chevron-left"
    /\ ctlLast' = "sidebar"
    /\ UNCHANGED <<fsApi, setupDone, tabVars, fsVars>>
    /\ UNCHANGED <<mvVars, mapVars, pageVars>>

\* The user clicks the fullscreen button: toggleFullscreen(viewerContainer).
\* The request is asynchronous; the icon is set at once. The resize 100 ms
\* later changes nothing the model holds.
ClickFullscreenBtn ==
    /\ setupDone
    /\ IF ~fullscreenElement
       THEN /\ fsRequest' = IF fsApi THEN "enter" ELSE fsRequest
            /\ fsIcon' = "compress"
       ELSE /\ fsRequest' = "exit"
            /\ fsIcon' = "expand"
    /\ ctlLast' = "fullscreen"
    /\ UNCHANGED <<fsApi, setupDone, tabVars, sidebarCollapsed, sidebarIcon,
                   fullscreenElement>>
    /\ UNCHANGED <<mvVars, mapVars, pageVars>>

\* The browser settles the pending request: it enters fullscreen or refuses
\* to, or it leaves fullscreen. No listener of the page runs.
FullscreenSettled ==
    /\ fsRequest # "none"
    /\ \E granted \in BOOLEAN :
        /\ fullscreenElement' = IF fsRequest = "enter"
                                THEN (granted \/ fullscreenElement) ELSE FALSE
        /\ ctlLast' = IF fsRequest = "exit" THEN "left"
                      ELSE IF granted THEN "entered" ELSE "refused"
    /\ fsRequest' = "none"
    /\ UNCHANGED <<fsApi, setupDone, tabVars, sidebarCollapsed, sidebarIcon, fsIcon>>
    /\ UNCHANGED <<mvVars, mapVars, pageVars>>

\* The user presses Escape in fullscreen: the browser leaves fullscreen. No
\* listener of the page runs.
EscapeKey ==
    /\ fullscreenElement
    /\ fullscreenElement' = FALSE
    /\ ctlLast' = "escape"
    /\ UNCHANGED <<fsApi, setupDone, tabVars, sidebarCollapsed, sidebarIcon,
                   fsRequest, fsIcon>>
    /\ UNCHANGED <<mvVars, mapVars, pageVars>>

\* The user flips the theme switch of the viewer page.
ViewerThemeChange ==
    /\ setupDone
    /\ switchChecked' = ~switchChecked
    /\ dataTheme' = IF ~switchChecked THEN "dark" ELSE "none"
    /\ storage' = setItem(storage, "theme", IF ~switchChecked THEN "dark" ELSE "light")
    /\ ctlLast' = "themeChange"
    /\ UNCHANGED <<fsApi, setupDone, tabVars, sidebarCollapsed, sidebarIcon, fsVars>>
    /\ UNCHANGED <<prefersDark, listVars, navVars, pageLast>>
    /\ UNCHANGED <<mvVars, mapVars>>

NextViewerPage ==
    \/ SetupUIControls \/ ClickViewBtn \/ ClickSidebarToggle
    \/ ClickFullscreenBtn \/ FullscreenSettled \/ EscapeKey \/ ViewerThemeChange

NextList == PageLoad \/ ProbeSettled \/ MetadataSettled \/ HtmlSettled

NextPage == NextList \/ Reload \/ ThemeChange \/ ClickCard \/ CheckSettled

\* ---------------------------------------------------------- specifications
\* The map viewer before construction on a page with every element present.
MapIdle ==
    /\ InitMap
    /\ mapEnv = [container |-> TRUE, layersList |-> TRUE, annotationsList |-> TRUE]

\* The model viewer before construction on a page with every library loaded.
ViewerIdle ==
    /\ InitViewer
    /\ env = [variant |-> "draco", three |-> TRUE, webgl |-> TRUE,
              loaders |-> {"obj", "gltf"}]
    /\ options = [modelPath |-> NoPath, modelType |-> "unset"]

\* The viewer page before setupUIControls, with no class active.
ControlsIdle ==
    /\ InitControls
    /\ fsApi
    /\ activeViews = {}
    /\ activeBtns = {}

Init == InitViewer /\ MapIdle /\ InitPage /\ ControlsIdle

NextUI == Construct \/ LoadSuccess \/ LoadError \/ ClickRetry \/ ClickDemo \/ Resize

Next == NextUI \/ ApiLoad

\* The model viewer driven by the page alone: construction, load callbacks,
\* clicks, resizes.
SpecUI == Init /\ [][NextUI]_vars

NextController == NextUI \/ InitModelViewer

\* The model viewer constructed by the viewer controller or directly.
SpecController == Init /\ [][NextController]_vars

NextAnimate == NextUI \/ Animate \/ AnimationFrame

\* The model viewer driven by the page, with its animation loop: the loop
\* runs once animate() is called on an initialized viewer.
SpecAnimate == Init /\ [][NextAnimate]_vars

\* The model viewer with its public load method also called from outside.
Spec == Init /\ [][Next]_vars

InitMapViewer == ViewerIdle /\ InitMap /\ InitPage /\ ControlsIdle


\* The map viewer under its public operations, fetch completions and clicks.
SpecMap == InitMapViewer /\ [][NextMap]_vars

InitIndexPage == ViewerIdle /\ MapIdle /\ InitPage /\ ControlsIdle

\* The project lister of one page load: discovery, metadata, cards.
SpecList == InitIndexPage /\ [][NextList]_vars

\* The project lister when every request issued settles.
SpecListFair ==
    /\ SpecList
    /\ WF_vars(ProbeSettled) /\ WF_vars(MetadataSettled) /\ WF_vars(HtmlSettled)
    /\ WF_vars(PageLoad)

\* The index page: loads and reloads, the theme switch, the lister, clicks on
\* cards and the navigation that follows.
SpecPage == InitIndexPage /\ [][NextPage]_vars

InitViewerPage == ViewerIdle /\ MapIdle /\ InitPage /\ InitControls

\* The viewer page: setupUIControls, then clicks on the tab buttons, the
\* sidebar toggle, the fullscreen button and the theme switch, and the
\* browser entering and leaving fullscreen.
SpecViewerPage == InitViewerPage /\ [][NextViewerPage]_vars

\* ------------------------------------------------------------------ claims
LifecycleStart == {<<"loading">>, <<"loading", "error">>}

\* The lifecycle moves of the state machine as the specification draws it. A
\* handler whose loader setup throws passes through loading into error.
OriginalMoves(from, ev) ==
    CASE from = "uninitialized" /\ ev = "construct" -> LifecycleStart
      [] from = "loading" /\ ev = "success" -> {<<"displayed">>}
      [] from = "loading" /\ ev = "error" -> {<<"error">>}
      [] from = "error" /\ ev = "retry" -> LifecycleStart
      [] from = "error" /\ ev = "demo" -> {<<"demo">>}
      [] OTHER -> {}

AmendedMoves(from, ev) ==
    IF from = "uninitialized" /\ ev = "construct"
    THEN LifecycleStart \cup {<<"error">>}
    ELSE OriginalMoves(from, ev)

LastVisited == IF visited' = <<>> THEN mvState ELSE visited'[Len(visited')]

\* C1 (as stated): a viewer constructed with a model path moves only along
\* uninitialized -> loading -> {displayed | error}, error -> loading (retry)
\* and error -> demo (show demo), under construction, load callbacks and clicks.
C1_LifecycleAsStated ==
    [][options.modelPath # NoPath =>
        /\ mvState' = LastVisited
        /\ visited' # <<>> => visited' \in OriginalMoves(mvState, lastEvent'.ev)]_vars

\* C1 (amended): as above, and construction may also go from uninitialized
\* directly to error (Three.js missing, or scene setup throwing) without
\* entering loading.
C1_Lifecycle ==
    [][options.modelPath # NoPath =>
        /\ mvState' = LastVisited
        /\ visited' # <<>> => visited' \in AmendedMoves(mvState, lastEvent'.ev)]_vars

\* A load failed, Retry was clicked, and the retried load was displayed.
C1_Witness ==
    /\ options.modelPath # NoPath
    /\ lastEvent.ev = "success"
    /\ mvState = "displayed"
    /\ Len(kinds) = 3
    /\ kinds[2] = "cube"

\* C2: no load is cancelled by a later request (a load leaves the set of loads
\* in flight only through its own callback), every completion writes the mesh
\* slot, so after overlapping loads the slot holds the result of the load that
\* completed last: its model on success, a fresh fallback cube on error.
C2_LastCompletionWins ==
    [][/\ \A l \in inflight \ inflight' :
            lastEvent'.ev \in {"success", "error"} /\ lastEvent'.id = l.id
       /\ lastEvent'.ev = "success" =>
            model' = lastEvent'.id /\ kinds'[model'] = "model"
       /\ lastEvent'.ev = "error" =>
            model' = Len(kinds) + 1 /\ kinds'[model'] = "cube"]_vars

\* Load 1 was requested first, load 2 while it was in flight; load 2 completed
\* first and load 1 last, and the slot holds the model of load 1.
C2_Witness ==
    /\ Len(kinds) >= 2
    /\ kinds[1] = "model"
    /\ kinds[2] = "model"
    /\ lastEvent = Event("success", 1, lastEvent.type)
    /\ inflight = {}
    /\ model = 1
    /\ 2 \in scene

RetriedLoad ==
    [id |-> Len(kinds) + 1, path |-> options.modelPath, type |-> ModelTypeOf(options)]

C4_DemoTerminal ==
    [][/\ lastEvent'.ev = "demo" =>
            /\ model' # Null
            /\ kinds'[model'] = "cube"
            /\ error' # "flex"
       /\ (demoShown /\ demoShown') =>
            /\ model' = model
            /\ error' # "flex"
            /\ loading' # "flex"]_vars

Unsupported(type) == ToLower(type) \notin {"glb", "gltf", "obj"}

\* The last handler called the load method (construction with a path on a
\* page where scene setup succeeded, Retry with a path, or an outside call).
LoadCalled ==
    \/ lastEvent'.ev = "load"
    \/ lastEvent'.ev = "retry" /\ options.modelPath # NoPath
    \/ lastEvent'.ev = "construct" /\ options.modelPath # NoPath
          /\ env.three /\ env.webgl

C6_LoadErrorHandled ==
    lastEvent.ev = "error" =>
        /\ ~threw
        /\ loading = "none"
        /\ error = "flex"
        /\ buttons = {"retry", "demo"}
        /\ model = Len(kinds)
        /\ kinds[model] = "cube"
        /\ model \in scene

\* A load failed while the viewer was constructed with a model path.
C6_Witness ==
    /\ lastEvent.ev = "error"
    /\ options.modelPath # NoPath
    /\ error = "flex"
    /\ kinds = <<"load", "cube">>

\* The flag an omitted, true or false visibility argument asks for.
Requested(flag, v) == IF v = "undefined" THEN ~flag ELSE v = "true"

\* The checkbox of an identifier, when the list holds one, shows this value.
CheckboxShows(controls, id, value) ==
    \A i \in 1..Len(controls) : controls[i].id = id => controls[i].checked = value

\* The map viewer after two calls of the toggle on id without a visibility
\* argument.
ToggledTwice(M, id) == toggleLayer(toggleLayer(M, id, "undefined"), id, "undefined")

AnnotationToggledTwice(M, id) ==
    toggleAnnotation(toggleAnnotation(M, id, "undefined"), id, "undefined")

\* C7: for every existing layer identifier, toggleLayer(id) twice with no
\* visibility argument returns the flag, the handle's presence on the map and
\* the checkbox state to what they were; the same for toggleAnnotation.
C7_ToggleTwice ==
    /\ \A id \in LayerIds : layers[id] # NoEntry =>
        LET M2 == ToggledTwice(MapView, id) IN
        /\ M2.layers[id].visible = layers[id].visible
        /\ (layers[id].layer \in M2.onMap) = (layers[id].layer \in onMap)
        /\ M2.layerControls = layerControls
    /\ \A id \in AnnIds : annotations[id] # NoEntry =>
        LET M2 == AnnotationToggledTwice(MapView, id) IN
        /\ M2.annotations[id].visible = annotations[id].visible
        /\ (annotations[id].layer \in M2.onMap) = (annotations[id].layer \in onMap)
        /\ M2.annControls = annControls

\* toggleLayer('ortho') has just run twice in a row on a layer that is hidden,
\* off the map and unchecked, as it was before the two calls.
C7_Witness ==
    /\ mapLast = [op |-> "toggleLayer", id |-> "ortho", arg |-> "undefined", rep |-> 2]
    /\ layers["ortho"] # NoEntry
    /\ ~layers["ortho"].visible
    /\ layers["ortho"].layer \notin onMap
    /\ \E i \in 1..Len(layerControls) :
        layerControls[i].id = "ortho" /\ ~layerControls[i].checked

\* C8: toggleLayer(id, v) on an existing identifier sets the flag to v when v
\* is given and to the negation of the flag when v is omitted; on return the
\* handle is on the map exactly when the flag is true and the checkbox of the
\* identifier, if present, is checked exactly when the flag is true; on an
\* unknown identifier toggleLayer changes nothing.
C8_ToggleLayer ==
    [][mapLast'.op = "toggleLayer" =>
        LET id == mapLast'.id IN
        IF layers[id] = NoEntry
        THEN UNCHANGED <<layers, layerKeys, annotations, annKeys, onMap,
                         layerControls, annControls, pendingGeo>>
        ELSE /\ layers'[id].visible = Requested(layers[id].visible, mapLast'.arg)
             /\ layers'[id].layer = layers[id].layer
             /\ (layers'[id].layer \in onMap') = layers'[id].visible
             /\ CheckboxShows(layerControls', id, layers'[id].visible)]_vars

\* toggleLayer('base', false) switched a visible layer off: its handle left
\* the map and its checkbox was cleared.
C8_Witness ==
    /\ mapLast = [op |-> "toggleLayer", id |-> "base", arg |-> "false", rep |-> 1]
    /\ ~layers["base"].visible
    /\ layers["base"].layer \notin onMap
    /\ layerControls # <<>>
    /\ \A i \in 1..Len(layerControls) :
        layerControls[i].id = "base" => ~layerControls[i].checked
    /\ layers["ortho"] # NoEntry
    /\ layers["ortho"].visible

\* The identifiers that have an entry.
Entries(table) == {id \in DOMAIN table : table[id] # NoEntry}

\* C9: adding a layer under an identifier that already exists replaces the
\* entry: afterwards the identifier maps to the new handle only, the old
\* handle is not on the map, and the number of layer entries is unchanged;
\* addAnnotation does the same for annotation identifiers.
C9_AddReplaces ==
    [][/\ (mapLast'.op = "addLayer" /\ layers[mapLast'.id] # NoEntry) =>
            LET id == mapLast'.id
                old == layers[id].layer
            IN /\ layers'[id].layer # old
               /\ old \notin onMap'
               /\ \A j \in LayerIds : layers'[j] # NoEntry => layers'[j].layer # old
               /\ (layers'[id].layer \in onMap') = layers'[id].visible
               /\ Entries(layers') = Entries(layers)
               /\ layerKeys' = layerKeys
       /\ (mapLast'.op = "addAnnotation" /\ annotations[mapLast'.id] # NoEntry) =>
            LET id == mapLast'.id
                old == annotations[id].layer
            IN /\ annotations'[id].layer # old
               /\ old \notin onMap'
               /\ (annotations'[id].layer \in onMap') = annotations'[id].visible
               /\ Entries(annotations') = Entries(annotations)
               /\ annKeys' = annKeys]_vars

\* The visible layer 'base' that construction registered was replaced by a
\* second handle: the first is gone from the map, the second is on it.
C9_Witness ==
    /\ mapLast.op = "addLayer"
    /\ mapLast.id = "base"
    /\ layers["base"].layer = [kind |-> "layer", id |-> "base", n |-> 2]
    /\ layers["base"].visible
    /\ onMap \cap {[kind |-> "layer", id |-> "base", n |-> m] : m \in 1..2}
         = {layers["base"].layer}
    /\ Len(layerKeys) = 2

\* C10: an existing layer or annotation entry changes only in its flag and
\* only through the toggle operation on its own identifier: a toggle leaves
\* every other layer entry and every annotation entry unchanged, and no other
\* operation (control rendering, resize, fitBounds, a failed fetch, adding a
\* different identifier) changes an existing entry; adding the same
\* identifier replaces the entry by a new one.
C10_FlagsFrame ==
    [][/\ \A id \in LayerIds : (layers[id] # NoEntry /\ layers'[id] # layers[id]) =>
            /\ mapLast'.id = id
            /\ \/ mapLast'.op = "addLayer" /\ layers'[id].layer # layers[id].layer
               \/ /\ mapLast'.op = "toggleLayer"
                  /\ layers'[id] = [layers[id] EXCEPT !.visible = ~@]
       /\ \A id \in AnnIds :
            (annotations[id] # NoEntry /\ annotations'[id] # annotations[id]) =>
            /\ mapLast'.id = id
            /\ \/ /\ mapLast'.op = "addAnnotation"
                  /\ annotations'[id].layer # annotations[id].layer
               \/ /\ mapLast'.op = "toggleAnnotation"
                  /\ annotations'[id] = [annotations[id] EXCEPT !.visible = ~@]]_vars

\* toggleLayer('ortho') hid one layer while the other layer and the
\* annotation, all registered before, are still shown.
C10_Witness ==
    /\ mapLast.op = "toggleLayer"
    /\ mapLast.id = "ortho"
    /\ layers["ortho"] # NoEntry
    /\ ~layers["ortho"].visible
    /\ layers["base"].visible
    /\ layers["base"].layer \in onMap
    /\ annotations["m1"] # NoEntry
    /\ annotations["m1"].visible
    /\ annotations["m1"].layer \in onMap

\* The names fetchProjectFolders knows of.
CandidateNames ==
    {KnownProjects[i] : i \in 1..Len(KnownProjects)}
        \cup {PossibleProjects[i] : i \in 1..Len(PossibleProjects)}

Elements(names) == {names[i] : i \in 1..Len(names)}

\* fetchProjectFolders has just returned.
FoldersReturned == plPhase = "probing" /\ plPhase' # "probing"

\* C11: discovery issues a HEAD request for each candidate name, and a name
\* is in the discovered list exactly when its HEAD request returned 2xx; a
\* name whose probe failed, returned non-2xx or that was never probed is not
\* in the list.
C11_ProbedExactly ==
    [][/\ pageLast'.ev = "probe" =>
            additionalProjects' =
                IF pageLast'.res.kind = "ok"
                THEN Append(additionalProjects, pageLast'.id)
                ELSE additionalProjects
       /\ FoldersReturned =>
            \A name \in CandidateNames :
                /\ Request("HEAD", "index.html", name) \in requests'
                /\ name \in Elements(projectFolders')
                     <=> name \in Elements(additionalProjects')]_vars

\* The title of an index.html card, by the folder and the HTML.
HtmlCardTitle(folder, res) == IF res.title THEN HtmlTitle ELSE Chars(folder)

IsTitleized(t, s) ==
    /\ Len(t) = Len(s)
    /\ \A i \in 1..Len(s) :
        t[i] = IF i = 1 THEN ToUpper(s[1])
               ELSE IF s[i] = "-" THEN " " ELSE s[i]

\* C13: when neither metadata.json nor index.html can be loaded for a folder,
\* its card's title is the folder name with the first character upper-cased
\* and every hyphen replaced by a space, and its description is
\* 'No description available.'.
C13_TitleizedFolder ==
    [][(pageLast'.ev = "html" /\ pageLast'.res.kind # "ok") =>
        /\ lastCard'.id = pageLast'.id
        /\ IsTitleized(lastCard'.title, Chars(pageLast'.id))
        /\ lastCard'.description = <<"No description available.">>]_vars

\* Both requests for stettiner-str failed and its card is titled
\* 'Stettiner str'.
C13_Witness ==
    /\ pageLast.ev = "html"
    /\ pageLast.res.kind = "network"
    /\ lastCard.id = "stettiner-str"
    /\ lastCard.title =
         <<"S", "t", "e", "t", "t", "i", "n", "e", "r", " ", "s", "t", "r">>
    /\ cards = <<"sample", "stettiner-str">>

\* C14: when metadata.json fails and index.html loads with map-initialization
\* code that has a center, the project record made from it has its map center
\* set.
C14_HtmlCenter ==
    [][(pageLast'.ev = "html" /\ pageLast'.res.kind = "ok" /\ pageLast'.res.center) =>
        lastCard'.center # "undefined"]_vars

\* C15: during one page load no probe and no metadata.json request is issued
\* twice; a failed probe moves on to the next candidate (or to the folders), a
\* failed metadata.json to index.html, a failed index.html to the folder-name
\* card and the next folder; no rejection escapes and the list never shows
\* anything but the loading indicator or cards.
C15_NoRetry ==
    [][/\ ~reissued'
       /\ ~unhandled'
       /\ listState' \in {"loading", "cards"}
       /\ (pageLast'.ev = "probe" /\ pageLast'.res.kind # "ok") =>
            /\ additionalProjects' = additionalProjects
            /\ \/ plPhase' = "probing" /\ probeIdx' = probeIdx + 1
               \/ plPhase' = "metadata" /\ probeIdx = Len(PossibleProjects)
       /\ (pageLast'.ev = "metadata" /\ pageLast'.res.kind # "ok") =>
            /\ plPhase' = "html"
            /\ folderIdx' = folderIdx
       /\ (pageLast'.ev = "html" /\ pageLast'.res.kind # "ok") =>
            /\ Len(cards') = Len(cards) + 1
            /\ \/ plPhase' = "metadata" /\ folderIdx' = folderIdx + 1
               \/ plPhase' = "done" /\ folderIdx = Len(projectFolders)]_vars

\* Every probe and every request for the two known folders failed, and the
\* listing is complete with two cards.
C15_Witness ==
    /\ plPhase = "done"
    /\ additionalProjects = <<>>
    /\ pageLast.ev = "html"
    /\ pageLast.res.kind = "status"
    /\ Len(cards) = 2
    /\ Cardinality(requests) = Len(PossibleProjects) + 2

\* The theme the page shows.
Applied == IF dataTheme = "dark" /\ switchChecked THEN "dark"
           ELSE IF dataTheme = "none" /\ ~switchChecked THEN "light"
           ELSE "mixed"

\* The theme the user chose last, as the storage holds it.
Stored == IF \E e \in storage : e[1] = "theme"
          THEN (CHOOSE e \in storage : e[1] = "theme")[2]
          ELSE "null"

\* C16: a switch of the theme stores the chosen value; a page load applies
\* the stored value to body data-theme and to the switch whatever the system
\* preference is, and follows the system preference only while nothing has
\* been stored.
C16_ThemePersists ==
    [][/\ pageLast'.ev = "themeChange" =>
            /\ Applied' \in {"dark", "light"}
            /\ Applied' # Applied
            /\ Stored' = Applied'
       /\ pageLast'.ev = "load" =>
            Applied' = IF Stored # "null" THEN Stored
                       ELSE IF prefersDark' THEN "dark" ELSE "light"]_vars

\* The user chose light on a system that prefers dark, and the page loaded
\* again shows light.
C16_Witness ==
    /\ pageLast.ev = "load"
    /\ prefersDark
    /\ storage = {<<"theme", "light">>}
    /\ dataTheme = "none"
    /\ ~switchChecked

\* C17: local storage only ever holds the key theme with the value 'dark' or
\* 'light', and it changes only in a change event of the theme switch, never
\* at a page load, in the project lister or in a click on a card.
C17_OnlyThemeKey ==
    [][/\ storage' \in {{}, {<<"theme", "dark">>}, {<<"theme", "light">>}}
       /\ storage' # storage => pageLast'.ev = "themeChange"]_vars

\* The theme was switched to dark, and later a click on a card led away from
\* the index page with the storage as the switch left it.
C17_Witness ==
    /\ storage = {<<"theme", "dark">>}
    /\ pageLast.ev = "check"
    /\ location.file = "viewer.html"

\* C18: a click on a card ends in exactly one navigation: to
\* projects/<id>/viewer.html when the HEAD check returned 2xx, and to
\* projects/<id>/index.html when it returned non-2xx or failed.
C18_OneNavigation ==
    [][/\ pageLast'.ev = "check" =>
            /\ navCheck # "none"
            /\ navigations' = 1
            /\ location' = [id |-> navCheck,
                            file |-> IF pageLast'.res.kind = "ok" THEN "viewer.html"
                                     ELSE "index.html"]
       /\ location' # location => pageLast'.ev \in {"check", "load"}
       /\ pageLast'.ev = "click" => navigations' = 0 /\ location' = location]_vars

\* The check for stettiner-str failed with a network error and the browser
\* went to its index.html.
C18_Witness ==
    /\ pageLast = PastEvent("check", "stettiner-str", Failed("network"))
    /\ location = [id |-> "stettiner-str", file |-> "index.html"]
    /\ navigations = 1

\* The placeholder is shown and no load is or was started.
PlaceholderOnly ==
    /\ placeholder'
    /\ inflight' = {}
    /\ loading' # "flex"
    /\ error' # "flex"
    /\ buttons' = {}
    /\ \A i \in 1..Len(kinds') : kinds'[i] = "cube"

\* C19 (as stated): without a model path the controller shows the
\* placeholder, no load is ever started and the viewer enters neither loading
\* nor error.
C19_PlaceholderAsStated ==
    [][/\ (lastEvent'.ev = "placeholder") =>
            /\ PlaceholderOnly
            /\ \A i \in 1..Len(visited') : visited'[i] \notin {"loading", "error"}
       /\ placeholder => PlaceholderOnly]_vars

\* C19 (amended): without a model path the controller shows the placeholder,
\* no load is ever started and the viewer never enters loading; it enters
\* error only inside its constructor, when Three.js is missing or scene setup
\* throws, and the placeholder replaces that error panel and its buttons
\* before the handler returns.
C19_Placeholder ==
    [][/\ (lastEvent'.ev = "placeholder") =>
            /\ PlaceholderOnly
            /\ \A i \in 1..Len(visited') : visited'[i] # "loading"
            /\ (\E i \in 1..Len(visited') : visited'[i] = "error")
                  => (~env.three \/ ~env.webgl)
       /\ placeholder => PlaceholderOnly]_vars

\* The placeholder was shown on a page without Three.js and the window was
\* resized afterwards.
C19_Witness ==
    /\ placeholder
    /\ ~env.three
    /\ options.modelPath = NoPath
    /\ lastEvent.ev = "resize"
    /\ error = "absent"

\* C20: when every request settles, loadProjectsDirectly finishes with the
\* loading indicator replaced by cards, the no-projects message or the sample
\* projects, and no rejection escapes unhandled.
C20_ListingFinishes ==
    /\ <>(plPhase = "done" /\ listState \in {"cards", "empty", "samples"})
    /\ [](~unhandled)

\* The listing finished although every request but one probe failed.
C20_Witness ==
    /\ plPhase = "done"
    /\ listState = "cards"
    /\ additionalProjects = <<"project-2">>
    /\ cards = <<"sample", "stettiner-str", "project-2">>
    /\ pageLast.ev = "html"
    /\ pageLast.res.kind = "network"

\* C21: after init completes without error the animation loop is running: a
\* next frame of animate is requested whenever the viewer is initialized, so
\* that a fallback cube is rotated and rendered on every frame.
C21_LoopRunning == isInitialized => frameRequested

\* C22: the cube-animation flag is set only while the mesh slot holds a
\* fallback or demo cube, so that a model loaded after an earlier failure is
\* not rotated.
C22_CubeFlag == cubeAnimation => (model # Null /\ kinds[model] = "cube")

\* C23: the scene holds at most one model object and it is the object in the
\* mesh slot: no model or cube that left the slot stays in the scene.
C23_OneModelInScene == scene \subseteq ({model} \ {Null})

\* C24: the loading indicator is visible exactly while at least one load is
\* in flight, and never at the same time as the error panel.
C24_LoadingWhileInFlight ==
    /\ (loading = "flex") <=> (inflight # {})
    /\ ~(loading = "flex" /\ error = "flex")

\* C25: constructing a MapViewer whose container element does not exist is
\* not an exception: the constructor completes and the instance has no map,
\* no layer entry and no annotation entry.
C25_MissingContainerHandled ==
    (mapStatus # "new" /\ ~mapEnv.container) =>
        /\ mapStatus # "failed"
        /\ layerKeys = <<>> /\ annKeys = <<>> /\ onMap = {}

\* The handles the layer and annotation entries hold.
CurrentHandles ==
    {layers[id].layer : id \in {i \in LayerIds : layers[i] # NoEntry}}
        \cup {annotations[id].layer : id \in {i \in AnnIds : annotations[i] # NoEntry}}

Reflects(controls, keys, table) ==
    /\ Len(controls) = Len(keys)
    /\ {controls[i].id : i \in 1..Len(controls)} = {keys[i] : i \in 1..Len(keys)}
    /\ \A i, j \in 1..Len(controls) : controls[i].id = controls[j].id => i = j
    /\ \A i \in 1..Len(controls) : controls[i].checked = table[controls[i].id].visible

\* C27: on a page with both lists, after every add or toggle operation the
\* layers list has exactly one checkbox per layer entry and the annotations
\* list one per annotation entry, each checked exactly when its entry's flag
\* is true, and every base entry precedes every overlay entry.
C27_ControlsReflect ==
    (mapStatus = "ready" /\ mapEnv.layersList /\ mapEnv.annotationsList) =>
        /\ Reflects(layerControls, layerKeys, layers)
        /\ Reflects(annControls, annKeys, annotations)
        /\ \A i, j \in 1..Len(layerControls) :
                (layers[layerControls[i].id].type # "base"
                    /\ layers[layerControls[j].id].type = "base") => j < i

\* A base layer added after the overlay entry of init is listed before it,
\* and a toggle has unchecked it.
C27_Witness ==
    /\ mapEnv.layersList
    /\ layerKeys = <<"base", "ortho">>
    /\ Len(layerControls) = 2
    /\ layerControls[1].id = "ortho"
    /\ layers["ortho"].type = "base"
    /\ layers["base"].type = "overlay"
    /\ mapLast.op = "toggleLayer"
    /\ ~layerControls[1].checked

\* C28: a GeoJSON layer given by URL is registered only when its fetch
\* completes: the add itself changes no entry and nothing on the map, a
\* failed fetch changes no entry and nothing on the map, and a completed
\* fetch puts a new handle under its identifier, whatever was registered
\* there before, with the earlier handle off the map and all other entries
\* as they were.
C28_GeoJsonRegistration ==
    [][/\ (pendingGeo' \ pendingGeo # {} \/ mapLast'.op = "geoJsonError") =>
            UNCHANGED <<layers, layerKeys, annotations, annKeys, onMap,
                        layerControls, annControls>>
       /\ (mapLast'.op = "addLayer" /\ mapLast'.arg = "geojson") =>
            LET id == mapLast'.id IN
            /\ layers'[id] # NoEntry
            /\ layers'[id].layer # layers[id].layer
            /\ layers[id].layer \notin onMap'
            /\ \A j \in LayerIds \ {id} : layers'[j] = layers[j]
            /\ onMap' \ {layers'[id].layer} = onMap \ {layers[id].layer}
            /\ UNCHANGED <<annotations, annKeys>>]_vars

\* Two fetches for the same identifier were in flight; one has completed and
\* replaced the handle registered before it, the other is still pending.
C28_Witness ==
    /\ mapLast.op = "addLayer"
    /\ mapLast.arg = "geojson"
    /\ mapLast.id = "ortho"
    /\ layers["ortho"].layer.n = 2
    /\ \E f \in pendingGeo : f.id = "ortho"

\* C29: after setupUIControls and any sequence of tab clicks exactly one of
\* the two views carries class active, the tab button that carries it is the
\* button of that view, and right after setupUIControls the view is the map.
C29_OneActiveView ==
    setupDone =>
        /\ Cardinality(activeViews) = 1
        /\ activeBtns = activeViews
        /\ ctlLast = "setup" => activeViews = {"map"}
        /\ ctlLast \in Views => activeViews = {ctlLast}

\* The model tab was clicked after setupUIControls and the model view alone
\* is active.
C29_Witness ==
    /\ setupDone
    /\ ctlLast = "model"
    /\ activeViews = {"model"}
    /\ activeBtns = {"model"}

\* C30: whenever no fullscreen request is pending, the icon of the fullscreen
\* button is 'compress' exactly when the document is in fullscreen, also
\* after Escape and after a refused request.
C30_IconTracksFullscreen ==
    fsRequest = "none" => ((fsIcon = "compress") <=> fullscreenElement)

====
